---------------------------- MODULE Spec2Model ----------------------------
(***************************************************************************)
(* traffic_comparator/reports.py: BasicCorrectnessReport and               *)
(* PerformanceReport, the two reports built over a list of                 *)
(* ResponseComparison objects and a list of uncompared requests.           *)
(*                                                                         *)
(* A Python string is a sequence of one-character strings where its        *)
(* length matters (a body's string form), and a record of its formatted    *)
(* fields where only the fields vary (a summary, a diff-input line).       *)
(***************************************************************************)
EXTENDS Integers, Sequences, FiniteSets, TLC

VARIABLES
    report,     \* the class of the report object under study
    numpy,      \* what the installed numpy does with an empty sample
    comps,      \* self._response_comparisons
    uncompared, \* len(self._uncompared_requests)
    computed,   \* self._computed
    fields,     \* the attributes compute() has assigned so far
    summary,    \* what the last completed __str__ call returned (<<>>: none yet)
    sink,       \* the writes the last export call made to its output_file
    raised,     \* the exception the last call let out ("" : none)
    op,         \* the last call made on the report
    threads     \* the callers of the interleaved specification

vars == <<report, numpy, comps, uncompared, computed, fields, summary, sink,
          raised, op, threads>>

----------------------------------------------------------------------------
(* Bounds of the model *)

MaxComps == 2
MaxUncompared == 1
LongLen == 81
NumThreads == 2
MaxThreadComps == 2

(* Constants of the program *)

BodyWidth == 80
SeparatorWidth == 40

----------------------------------------------------------------------------
(* Generic helpers *)

Min(a, b) == IF a < b THEN a ELSE b

RECURSIVE SeqsUpTo(_, _)
SeqsUpTo(S, n) ==
    IF n = 0 THEN {<<>>}
    ELSE LET shorter == SeqsUpTo(S, n - 1)
         IN  shorter \cup {Append(s, x) : s \in {t \in shorter : Len(t) = n - 1}, x \in S}

RECURSIVE SumSeq(_)
SumSeq(s) == IF s = <<>> THEN 0 ELSE Head(s) + SumSeq(Tail(s))

\* sum([f(x) for x in s]) for a boolean f: True counts 1, False 0
RECURSIVE CountTrue(_)
CountTrue(bs) ==
    IF bs = <<>> THEN 0
    ELSE (IF Head(bs) THEN 1 ELSE 0) + CountTrue(Tail(bs))

\* round(num / den) to the nearest integer, ties to even (num >= 0, den > 0)
RoundDiv(num, den) ==
    LET q == num \div den
        r == num % den
    IN  IF 2 * r < den THEN q
        ELSE IF 2 * r > den THEN q + 1
        ELSE IF q % 2 = 0 THEN q ELSE q + 1

----------------------------------------------------------------------------
(* Response bodies: a str, None, a dict (its items in insertion order), or *)
(* a bytes object, which is neither a str nor None and which json.dumps    *)
(* refuses.                                                                *)

StrBody(text) == [kind |-> "str", text |-> text, items |-> <<>>]
NoneBody == [kind |-> "none", text |-> <<>>, items |-> <<>>]
DictBody(items) == [kind |-> "dict", text |-> <<>>, items |-> items]
BytesBody(text) == [kind |-> "bytes", text |-> text, items |-> <<>>]

EmptyStr == StrBody(<<>>)
LongStr == StrBody([i \in 1..LongLen |-> "x"])
DictBA == DictBody(<< <<"b", 1>>, <<"a", 2>> >>)
SomeBytes == BytesBody(<<"z">>)

Alphabet == <<"a", "b", "c">>
Digits == <<"0", "1", "2", "3", "4", "5", "6", "7", "8", "9">>
KeyOrd(k) == CHOOSE i \in 1..Len(Alphabet) : Alphabet[i] = k

\* f"{type(body)}"
TypeTag(body) ==
    CASE body.kind = "str" -> "<class 'str'>"
      [] body.kind = "none" -> "<class 'NoneType'>"
      [] body.kind = "dict" -> "<class 'dict'>"
      [] body.kind = "bytes" -> "<class 'bytes'>"

ReprItem(it) == <<"'", it[1], "'", ":", " ", Digits[it[2] + 1]>>

RECURSIVE ReprItems(_)
ReprItems(items) ==
    IF items = <<>> THEN <<>>
    ELSE IF Len(items) = 1 THEN ReprItem(items[1])
    ELSE ReprItem(items[1]) \o <<",", " ">> \o ReprItems(Tail(items))

\* str(body), the !s conversion of the f-string
StrForm(body) ==
    CASE body.kind = "str" -> body.text
      [] body.kind = "none" -> <<"N", "o", "n", "e">>
      [] body.kind = "dict" -> <<"{">> \o ReprItems(body.items) \o <<"}">>
      [] body.kind = "bytes" -> <<"b", "'">> \o body.text \o <<"'">>

\* the .80 precision of the format spec: the first 80 characters
\* (variant: a format spec without the precision)
TruncateWide(s) == s
Truncate(s) == SubSeq(s, 1, Min(BodyWidth, Len(s)))

\* body == "": only the empty str equals the empty string
IsEmptyString(body) == body.kind = "str" /\ body.text = <<>>

\* isinstance(body, str) or body is None
IsStrOrNone(body) == body.kind \in {"str", "none"}

\* json.dumps raises TypeError for an object it cannot serialize
Serializable(body) == body.kind # "bytes"

RECURSIVE InsertItem(_, _)
InsertItem(it, sorted) ==
    IF sorted = <<>> THEN <<it>>
    ELSE IF KeyOrd(it[1]) <= KeyOrd(Head(sorted)[1]) THEN <<it>> \o sorted
    ELSE <<Head(sorted)>> \o InsertItem(it, Tail(sorted))

RECURSIVE SortItems(_)
SortItems(items) ==
    IF items = <<>> THEN <<>> ELSE InsertItem(Head(items), SortItems(Tail(items)))

\* one line of the indented serialization:     "k": v  with a comma unless last
JsonEntry(it, last) ==
    <<" ", " ", " ", " ", "\"", it[1], "\"", ":", " ", Digits[it[2] + 1]>>
        \o (IF last THEN <<>> ELSE <<",">>)

\* json.dumps(body, sort_keys=True, indent=4).splitlines() of a dict
JsonLines(body) ==
    LET its == SortItems(body.items)
    IN  IF its = <<>> THEN << <<"{", "}">> >>
        ELSE << <<"{">> >>
             \o [j \in 1..Len(its) |-> JsonEntry(its[j], j = Len(its))]
             \o << <<"}">> >>

----------------------------------------------------------------------------
(* The lines handed to difflib *)

Line(tag, num, type, text) == [tag |-> tag, num |-> num, type |-> type, text |-> text]

StatusLine(resp) == Line("Status code: ", resp.statuscode, "", <<>>)
HeadersLine(resp) == Line("Headers: ", 0, "", <<resp.headers>>)
\* f"Body:{type(body)} {body!s:.80}"
BodyLine(resp) == Line("Body:", 0, TypeTag(resp.body), Truncate(StrForm(resp.body)))
BodyHeader == Line("Body:", 0, "", <<>>)
JsonLine(text) == Line("", 0, "", text)

\* the single-line form, used when either body is a str or None
ShortLines(resp) == <<StatusLine(resp), HeadersLine(resp), BodyLine(resp)>>

\* the serialized form, used when both bodies are structured
LongLines(resp) ==
    LET js == JsonLines(resp.body)
    IN  <<StatusLine(resp), HeadersLine(resp), BodyHeader>>
        \o [j \in 1..Len(js) |-> JsonLine(js[j])]

----------------------------------------------------------------------------
(* Inputs: Response records and ResponseComparison objects.  is_identical  *)
(* is the comparison's own predicate; the reports only call it.            *)

Response(code, body, latency) ==
    [statuscode |-> code, headers |-> "{}", body |-> body, latency |-> latency]

Comparison(idn, primary, shadow) ==
    [identical |-> idn, primary_response |-> primary, shadow_response |-> shadow]

is_identical(comp) == comp.identical

Bodies == {EmptyStr, LongStr, NoneBody, DictBA, SomeBytes}
BodyPairs == {pair \in Bodies \X Bodies : pair[1] = DictBA \/ pair[2] = DictBA}

\* comparisons that differ in what BasicCorrectnessReport reads
BasicComparisons ==
    {Comparison(idn, Response(200, pair[1], 10), Response(code, pair[2], 10)) :
        idn \in BOOLEAN, pair \in BodyPairs, code \in {200}}
    \cup
    {Comparison(idn, Response(200, DictBA, 10), Response(500, DictBA, 10)) :
        idn \in BOOLEAN}

\* comparisons that differ in what PerformanceReport reads
PerfComparisons ==
    {Comparison(TRUE, Response(200, EmptyStr, pl), Response(200, EmptyStr, sl)) :
        pl \in {-1, 0, 10, 30}, sl \in {-1, 0, 20}}

----------------------------------------------------------------------------
(* The attributes compute() assigns.  attrs names those that exist on the  *)
(* object; reading one that does not exist raises AttributeError.          *)

BasicAttrs == {"total_comparisons", "number_identical", "statuses_identical",
               "percent_matching", "percent_statuses_matching", "number_skipped"}
PerfAttrs == {"primary_latencies", "shadow_latencies"}

Zero == [num |-> 0, den |-> 1]

NoFields ==
    [attrs |-> {},
     total_comparisons |-> 0, number_identical |-> 0, statuses_identical |-> 0,
     percent_matching |-> Zero, percent_statuses_matching |-> Zero,
     number_skipped |-> 0,
     primary_latencies |-> <<>>, shadow_latencies |-> <<>>]

RECURSIVE GCD(_, _)
GCD(a, b) == IF b = 0 THEN a ELSE GCD(b, a % b)

\* 1.0 * n / d as an exact fraction in lowest terms (d > 0)
Ratio(n, d) == LET g == GCD(n, d) IN [num |-> n \div g, den |-> d \div g]

----------------------------------------------------------------------------
(* BasicCorrectnessReport *)

StatusesMatch(comp) ==
    comp.primary_response.statuscode = comp.shadow_response.statuscode

\* the percentage pair of compute: guarded against an empty comparison list
Percent(count, total) == IF total # 0 THEN Ratio(count, total) ELSE Zero

\* (variant: the identical count taken for the status count)
CountStatusesAsIdentical(cs) == CountTrue([j \in 1..Len(cs) |-> is_identical(cs[j])])
CountStatuses(cs) == CountTrue([j \in 1..Len(cs) |-> StatusesMatch(cs[j])])

BasicComputeFields(f, cs, skipped) ==
    LET total == Len(cs)
        identical == CountTrue([j \in 1..Len(cs) |-> is_identical(cs[j])])
        statuses == CountStatuses(cs)
    IN  [f EXCEPT !.attrs = @ \cup BasicAttrs,
                  !.total_comparisons = total,
                  !.number_identical = identical,
                  !.statuses_identical = statuses,
                  !.percent_matching = Percent(identical, total),
                  !.percent_statuses_matching = Percent(statuses, total),
                  !.number_skipped = skipped]

\* {x:.2%}: hundredths of a percent, rounded
FormatPercent(x) == RoundDiv(x.num * 10000, x.den)

\* the text of BasicCorrectnessReport.__str__
BasicText(f) ==
    [total |-> f.total_comparisons,
     identical |-> f.number_identical,
     match_rate |-> FormatPercent(f.percent_matching),
     status_rate |-> FormatPercent(f.percent_statuses_matching),
     skipped |-> f.number_skipped]

\* sink items: one per output_file.write call
Item(w, n, text, a, b) == [w |-> w, n |-> n, text |-> text, a |-> a, b |-> b]
Newline == Item("\n", 0, <<>>, <<>>, <<>>)
Separator == Item("=", SeparatorWidth, <<>>, <<>>, <<>>)
SummaryItem(text) == Item("str(self)", 0, <<text>>, <<>>, <<>>)
\* "\n".join(d.compare(a, b)): difflib's output for the two line lists,
\* kept as the pair of its inputs
DiffItem(a, b) == Item("diff", 0, <<>>, a, b)

\* the continue of the export loop
\* (variant: the shadow body left out of the test)
SkipsIgnoringShadow(comp) ==
    is_identical(comp) \/ IsEmptyString(comp.primary_response.body)
Skips(comp) ==
    \/ is_identical(comp)
    \/ IsEmptyString(comp.primary_response.body)
    \/ IsEmptyString(comp.shadow_response.body)

\* the branch that picks the single-line body form
UsesShortLines(comp) ==
    IsStrOrNone(comp.primary_response.body) \/ IsStrOrNone(comp.shadow_response.body)

\* whether building the diff input of comp raises TypeError in json.dumps
DumpRaises(comp) ==
    /\ ~UsesShortLines(comp)
    /\ \/ ~Serializable(comp.primary_response.body)
       \/ ~Serializable(comp.shadow_response.body)

DiffOf(comp) ==
    IF UsesShortLines(comp)
    THEN DiffItem(ShortLines(comp.primary_response), ShortLines(comp.shadow_response))
    ELSE DiffItem(LongLines(comp.primary_response), LongLines(comp.shadow_response))

\* the for loop of export from comparison i on; out is what was written so far
RECURSIVE ExportLoop(_, _, _)
ExportLoop(cs, i, out) ==
    IF i > Len(cs) THEN [sink |-> out, raised |-> ""]
    ELSE IF Skips(cs[i]) THEN ExportLoop(cs, i + 1, out)
    ELSE IF DumpRaises(cs[i])
         THEN [sink |-> out \o <<Separator, Newline>>, raised |-> "TypeError"]
         ELSE ExportLoop(cs, i + 1,
                  out \o <<Separator, Newline, DiffOf(cs[i]), Newline>>)

\* if not self._computed: self.compute()
\* (variant: __str__ and export without the test)
BasicEnsureNever(f, c) == [fields |-> f, computed |-> c]
BasicEnsure(f, c) ==
    IF ~c
    THEN [fields |-> BasicComputeFields(f, comps, uncompared), computed |-> TRUE]
    ELSE [fields |-> f, computed |-> c]

\* str(self) on the attributes f: the text, or AttributeError when one is missing
BasicRender(f) ==
    IF BasicAttrs \subseteq f.attrs
    THEN [text |-> <<BasicText(f)>>, raised |-> ""]
    ELSE [text |-> <<>>, raised |-> "AttributeError"]

BasicCompute ==
    /\ report = "BasicCorrectnessReport"
    /\ fields' = BasicComputeFields(fields, comps, uncompared)
    /\ computed' = TRUE
    /\ raised' = ""
    /\ op' = "compute"
    /\ UNCHANGED <<report, numpy, comps, uncompared, summary, sink, threads>>

BasicStr ==
    /\ report = "BasicCorrectnessReport"
    /\ LET e == BasicEnsure(fields, computed)
           r == BasicRender(e.fields)
       IN  /\ fields' = e.fields
           /\ computed' = e.computed
           /\ summary' = IF r.raised = "" THEN r.text ELSE summary
           /\ raised' = r.raised
    /\ op' = "str"
    /\ UNCHANGED <<report, numpy, comps, uncompared, sink, threads>>

\* export writes to the output_file it is given; each call gets an empty one
BasicExport ==
    /\ report = "BasicCorrectnessReport"
    /\ LET e == BasicEnsure(fields, computed)
           r == BasicRender(e.fields)
           loop == ExportLoop(comps, 1, <<SummaryItem(r.text[1]), Newline>>)
       IN  /\ fields' = e.fields
           /\ computed' = e.computed
           /\ IF r.raised # ""
              THEN sink' = <<>> /\ raised' = r.raised
              ELSE sink' = loop.sink /\ raised' = loop.raised
    /\ op' = "export"
    /\ UNCHANGED <<report, numpy, comps, uncompared, summary, threads>>

----------------------------------------------------------------------------
(* PerformanceReport *)

\* self._primary_latencies = []; self._shadow_latencies = []
\* (variant: lists created once and never emptied)
PerfKeepLists(f) == [f EXCEPT !.attrs = @ \cup PerfAttrs]
PerfFreshLists(f) ==
    [f EXCEPT !.attrs = @ \cup PerfAttrs,
              !.primary_latencies = <<>>,
              !.shadow_latencies = <<>>]

\* if latency > 0: append
\* (variant: >= in place of >)
RecordedOrZero(latency) == latency >= 0
Recorded(latency) == latency > 0

\* one pass of the for loop: both sides of comparison resp
PerfVisit(f, resp) ==
    LET pl == resp.primary_response.latency
        sl == resp.shadow_response.latency
    IN  [f EXCEPT !.primary_latencies = IF Recorded(pl) THEN Append(@, pl) ELSE @,
                  !.shadow_latencies = IF Recorded(sl) THEN Append(@, sl) ELSE @]

RECURSIVE PerfLoop(_, _, _)
PerfLoop(f, cs, i) ==
    IF i > Len(cs) THEN f ELSE PerfLoop(PerfVisit(f, cs[i]), cs, i + 1)

PerfComputeFields(f, cs) == PerfLoop(PerfFreshLists(f), cs, 1)

PerfEnsure(f, c) ==
    IF ~c
    THEN [fields |-> PerfComputeFields(f, comps), computed |-> TRUE]
    ELSE [fields |-> f, computed |-> c]

RECURSIVE Insert(_, _)
Insert(x, sorted) ==
    IF sorted = <<>> THEN <<x>>
    ELSE IF x <= Head(sorted) THEN <<x>> \o sorted
    ELSE <<Head(sorted)>> \o Insert(x, Tail(sorted))

RECURSIVE Sort(_)
Sort(s) == IF s = <<>> THEN <<>> ELSE Insert(Head(s), Sort(Tail(s)))

\* np.percentile(sample, q) of a non-empty sample, in hundredths: linear
\* interpolation between the two ranks around (n - 1) * q / 100
Percentile(sample, q) ==
    LET s == Sort(sample)
        pos == (Len(s) - 1) * q
        lo == pos \div 100
        rem == pos % 100
    IN  s[lo + 1] * 100 + (IF rem = 0 THEN 0 ELSE (s[lo + 2] - s[lo + 1]) * rem)

\* '%.1f' % value: tenths
FormatPercentile(sample, q) == RoundDiv(Percentile(sample, q), 10)
\* '%.1f' % np.average(sample)
FormatAverage(sample) == RoundDiv(SumSeq(sample) * 10, Len(sample))

\* the four lines of one cluster; an empty sample makes every one of them nan
\* under a numpy that returns nan for it
Stats(sample) ==
    IF sample = <<>>
    THEN [nan |-> TRUE, p99 |-> 0, p90 |-> 0, p50 |-> 0, average |-> 0]
    ELSE [nan |-> FALSE,
          p99 |-> FormatPercentile(sample, 99),
          p90 |-> FormatPercentile(sample, 90),
          p50 |-> FormatPercentile(sample, 50),
          average |-> FormatAverage(sample)]

PerfText(f) ==
    [primary |-> Stats(f.primary_latencies), shadow |-> Stats(f.shadow_latencies)]

\* str(self) on the attributes f.  np.percentile of an empty list either
\* returns nan or raises IndexError, depending on the numpy installed.
PerfRender(f) ==
    IF ~(PerfAttrs \subseteq f.attrs)
    THEN [text |-> <<>>, raised |-> "AttributeError"]
    ELSE IF numpy = "raise" /\ (f.primary_latencies = <<>> \/ f.shadow_latencies = <<>>)
    THEN [text |-> <<>>, raised |-> "IndexError"]
    ELSE [text |-> <<PerfText(f)>>, raised |-> ""]

Literal(s) == Item(s, 0, <<>>, <<>>, <<>>)
\* output_file.write(repr(lat) + " ")
LatencyItem(lat) == Item("repr ", lat, <<>>, <<>>, <<>>)
LatencyItems(lats) == [j \in 1..Len(lats) |-> LatencyItem(lats[j])]

PerfCompute ==
    /\ report = "PerformanceReport"
    /\ fields' = PerfComputeFields(fields, comps)
    /\ computed' = TRUE
    /\ raised' = ""
    /\ op' = "compute"
    /\ UNCHANGED <<report, numpy, comps, uncompared, summary, sink, threads>>

PerfStr ==
    /\ report = "PerformanceReport"
    /\ LET e == PerfEnsure(fields, computed)
           r == PerfRender(e.fields)
       IN  /\ fields' = e.fields
           /\ computed' = e.computed
           /\ summary' = IF r.raised = "" THEN r.text ELSE summary
           /\ raised' = r.raised
    /\ op' = "str"
    /\ UNCHANGED <<report, numpy, comps, uncompared, sink, threads>>

PerfExport ==
    /\ report = "PerformanceReport"
    /\ LET e == PerfEnsure(fields, computed)
           r == PerfRender(e.fields)
       IN  /\ fields' = e.fields
           /\ computed' = e.computed
           /\ raised' = r.raised
           /\ sink' = IF r.raised # "" THEN <<>>
                      ELSE <<SummaryItem(r.text[1]), Newline,
                             Literal("All Primary Cluster Latencies: \n")>>
                           \o LatencyItems(e.fields.primary_latencies)
                           \o <<Newline, Literal("All Shadow Cluster Latencies: \n")>>
                           \o LatencyItems(e.fields.shadow_latencies)
                           \o <<Newline>>
    /\ op' = "export"
    /\ UNCHANGED <<report, numpy, comps, uncompared, summary, threads>>

----------------------------------------------------------------------------
(* One report object, used by one caller: any sequence of calls *)

\* no other caller: the threads of the interleaved specification stay idle
NoThreads == [t \in 1..NumThreads |-> [call |-> "none", pc |-> "idle", i |-> 0, text |-> <<>>, raised |-> ""]]

Init ==
    /\ report \in {"BasicCorrectnessReport", "PerformanceReport"}
    /\ numpy \in (IF report = "PerformanceReport" THEN {"nan", "raise"} ELSE {"nan"})
    /\ comps \in (IF report = "PerformanceReport"
                  THEN SeqsUpTo(PerfComparisons, MaxComps)
                  ELSE SeqsUpTo(BasicComparisons, MaxComps))
    /\ uncompared \in (IF report = "PerformanceReport" THEN {0} ELSE 0..MaxUncompared)
    /\ computed = FALSE
    /\ fields = NoFields
    /\ summary = <<>>
    /\ sink = <<>>
    /\ raised = ""
    /\ op = "init"
    /\ threads = NoThreads

Next ==
    \/ BasicCompute
    \/ BasicStr
    \/ BasicExport
    \/ PerfCompute
    \/ PerfStr
    \/ PerfExport

Spec == Init /\ [][Next]_vars

----------------------------------------------------------------------------
(* One report object shared by NumThreads callers, each making one call,   *)
(* compute or __str__, the statements of the calls interleaved.  The       *)
(* interpreter runs one statement of one thread at a time.                 *)

Thread(call) == [call |-> call, pc |-> "start", i |-> 0, text |-> <<>>, raised |-> ""]

ThreadBasicComparisons ==
    {Comparison(idn, Response(200, DictBA, 10), Response(code, DictBA, 10)) :
        idn \in BOOLEAN, code \in {200, 500}}
ThreadPerfComparisons ==
    {Comparison(TRUE, Response(200, EmptyStr, pl), Response(200, EmptyStr, sl)) :
        pl \in {0, 10}, sl \in {0, 20}}

InitThreads ==
    /\ report \in {"BasicCorrectnessReport", "PerformanceReport"}
    /\ numpy = "nan"
    /\ comps \in (IF report = "PerformanceReport"
                  THEN SeqsUpTo(ThreadPerfComparisons, MaxThreadComps)
                  ELSE SeqsUpTo(ThreadBasicComparisons, MaxThreadComps))
    /\ uncompared = 0
    /\ computed = FALSE
    /\ fields = NoFields
    /\ summary = <<>>
    /\ sink = <<>>
    /\ raised = ""
    /\ op = "init"
    /\ threads \in [1..NumThreads -> {Thread(call) : call \in {"compute", "str"}}]

FirstLine == IF report = "PerformanceReport" THEN "l113" ELSE "l39"
Shared == <<report, numpy, comps, uncompared, summary, sink, raised, op>>

\* the call starts: compute runs its body; __str__ tests self._computed first
TEnter(t) ==
    /\ threads[t].pc = "start"
    /\ threads' = [threads EXCEPT ![t].pc =
          IF threads[t].call = "str" /\ computed THEN "render" ELSE FirstLine]
    /\ UNCHANGED <<computed, fields>>
    /\ UNCHANGED Shared

\* self._primary_latencies = []
TPerf113(t) ==
    /\ threads[t].pc = "l113"
    /\ fields' = [fields EXCEPT !.attrs = @ \cup {"primary_latencies"},
                                !.primary_latencies = <<>>]
    /\ threads' = [threads EXCEPT ![t].pc = "l114"]
    /\ UNCHANGED computed
    /\ UNCHANGED Shared

\* self._shadow_latencies = [], and the for loop starts
TPerf114(t) ==
    /\ threads[t].pc = "l114"
    /\ fields' = [fields EXCEPT !.attrs = @ \cup {"shadow_latencies"},
                                !.shadow_latencies = <<>>]
    /\ threads' = [threads EXCEPT ![t].pc = IF Len(comps) = 0 THEN "l121" ELSE "l116",
                                  ![t].i = 1]
    /\ UNCHANGED computed
    /\ UNCHANGED Shared

\* if resp.primary_response.latency > 0: self._primary_latencies.append(...)
TPerf116(t) ==
    /\ threads[t].pc = "l116"
    /\ LET pl == comps[threads[t].i].primary_response.latency
       IN  fields' = [fields EXCEPT !.primary_latencies =
                         IF Recorded(pl) THEN Append(@, pl) ELSE @]
    /\ threads' = [threads EXCEPT ![t].pc = "l118"]
    /\ UNCHANGED computed
    /\ UNCHANGED Shared

\* if resp.shadow_response.latency > 0: self._shadow_latencies.append(...),
\* and the loop goes on to the next comparison
TPerf118(t) ==
    /\ threads[t].pc = "l118"
    /\ LET sl == comps[threads[t].i].shadow_response.latency
       IN  fields' = [fields EXCEPT !.shadow_latencies =
                         IF Recorded(sl) THEN Append(@, sl) ELSE @]
    /\ threads' = [threads EXCEPT ![t].pc =
                      IF threads[t].i = Len(comps) THEN "l121" ELSE "l116",
                                  ![t].i = @ + 1]
    /\ UNCHANGED computed
    /\ UNCHANGED Shared

\* self._total_comparisons = len(self._response_comparisons)
TBasic39(t) ==
    /\ threads[t].pc = "l39"
    /\ fields' = [fields EXCEPT !.attrs = @ \cup {"total_comparisons"},
                                !.total_comparisons = Len(comps)]
    /\ threads' = [threads EXCEPT ![t].pc = "l40"]
    /\ UNCHANGED computed
    /\ UNCHANGED Shared

\* self._number_identical = sum([...])
TBasic40(t) ==
    /\ threads[t].pc = "l40"
    /\ fields' = [fields EXCEPT !.attrs = @ \cup {"number_identical"},
                                !.number_identical =
                     CountTrue([j \in 1..Len(comps) |-> is_identical(comps[j])])]
    /\ threads' = [threads EXCEPT ![t].pc = "l41"]
    /\ UNCHANGED computed
    /\ UNCHANGED Shared

\* self._statuses_identical = sum([...])
TBasic41(t) ==
    /\ threads[t].pc = "l41"
    /\ fields' = [fields EXCEPT !.attrs = @ \cup {"statuses_identical"},
                                !.statuses_identical = CountStatuses(comps)]
    /\ threads' = [threads EXCEPT ![t].pc = "l43"]
    /\ UNCHANGED computed
    /\ UNCHANGED Shared

\* the two percentages, from the attributes read back from self
TBasic43(t) ==
    /\ threads[t].pc = "l43"
    /\ fields' = [fields EXCEPT
          !.attrs = @ \cup {"percent_matching", "percent_statuses_matching"},
          !.percent_matching =
              Percent(fields.number_identical, fields.total_comparisons),
          !.percent_statuses_matching =
              Percent(fields.statuses_identical, fields.total_comparisons)]
    /\ threads' = [threads EXCEPT ![t].pc = "l49"]
    /\ UNCHANGED computed
    /\ UNCHANGED Shared

\* self._number_skipped = len(self._uncompared_requests)
TBasic49(t) ==
    /\ threads[t].pc = "l49"
    /\ fields' = [fields EXCEPT !.attrs = @ \cup {"number_skipped"},
                                !.number_skipped = uncompared]
    /\ threads' = [threads EXCEPT ![t].pc = "l121"]
    /\ UNCHANGED computed
    /\ UNCHANGED Shared

\* self._computed = True, the last statement of either compute
TSetComputed(t) ==
    /\ threads[t].pc = "l121"
    /\ computed' = TRUE
    /\ threads' = [threads EXCEPT ![t].pc =
                      IF threads[t].call = "str" THEN "render" ELSE "done"]
    /\ UNCHANGED fields
    /\ UNCHANGED Shared

\* the return statement of __str__: the text of the attributes as they are
TRender(t) ==
    /\ threads[t].pc = "render"
    /\ LET r == IF report = "PerformanceReport"
                THEN PerfRender(fields) ELSE BasicRender(fields)
       IN  threads' = [threads EXCEPT ![t].pc = "done",
                                      ![t].text = r.text,
                                      ![t].raised = r.raised]
    /\ UNCHANGED <<computed, fields>>
    /\ UNCHANGED Shared

NextThreads ==
    \E t \in 1..NumThreads :
        \/ TEnter(t)
        \/ TPerf113(t)
        \/ TPerf114(t)
        \/ TPerf116(t)
        \/ TPerf118(t)
        \/ TBasic39(t)
        \/ TBasic40(t)
        \/ TBasic41(t)
        \/ TBasic43(t)
        \/ TBasic49(t)
        \/ TSetComputed(t)
        \/ TRender(t)

SpecThreads == InitThreads /\ [][NextThreads]_vars

AllDone == \A t \in 1..NumThreads : threads[t].pc = "done"

----------------------------------------------------------------------------
(* Vocabulary of the properties *)

IsBasic == report = "BasicCorrectnessReport"
IsPerf == report = "PerformanceReport"

\* every attribute compute() assigns exists on the object
FullyComputed ==
    /\ computed
    /\ IsBasic => BasicAttrs \subseteq fields.attrs
    /\ IsPerf => PerfAttrs \subseteq fields.attrs

Called == op # "init"

\* the comparisons export is to render: not identical, both bodies non-empty
Renderable(comp) ==
    /\ ~comp.identical
    /\ comp.primary_response.body # EmptyStr
    /\ comp.shadow_response.body # EmptyStr

Positions(s, w) == {j \in 1..Len(s) : s[j].w = w}
IsDiff(item) == item.w = "diff"
DiffsWritten == SelectSeq(sink, IsDiff)

----------------------------------------------------------------------------
\* C1: after any sequence of compute, __str__ and export calls, on either
\* report class, the report is Computed with every cached attribute set, it
\* never goes back to Uninitialized, and every summary text and export
\* output present was rendered from the fully computed attributes (no call
\* ever read a missing attribute).
C1_OutputFromComputedState ==
    /\ [](Called => FullyComputed /\ raised # "AttributeError")
    /\ []((summary # <<>> \/ sink # <<>>) => FullyComputed)
    /\ [](summary # <<>> =>
            summary[1] = IF IsBasic THEN BasicText(fields) ELSE PerfText(fields))
    /\ [](sink # <<>> =>
            sink[1] = SummaryItem(IF IsBasic THEN BasicText(fields) ELSE PerfText(fields)))
    /\ [][computed => computed']_vars

C1_Witness ==
    /\ op = "export"
    /\ computed
    /\ summary # <<>>
    /\ sink # <<>>
    /\ Len(comps) = MaxComps

\* C2: a compute call on a Computed report leaves every cached attribute
\* with the value it had, and a __str__ call that returns a text returns the
\* text the previous __str__ call returned, whatever compute calls came in
\* between.
C2_ComputeIdempotent ==
    /\ [][(computed /\ op' = "compute") => (fields' = fields /\ computed')]_vars
    /\ [][(summary # <<>> /\ op' = "str" /\ raised' = "") => summary' = summary]_vars

C2_Witness ==
    /\ op = "compute"
    /\ summary # <<>>
    /\ sink # <<>>
    /\ IsPerf
    /\ Len(fields.primary_latencies) = MaxComps

\* C4: after BasicCorrectnessReport.compute the counts are the length of
\* the comparison list, the number of identical comparisons, the number of
\* comparisons with equal status codes and the number of uncompared
\* requests; each percentage is its count over the total and lies in [0, 1]
\* for a non-empty list, and is 0 for an empty one, with no exception.
C4_BasicCounts ==
    (IsBasic /\ computed) =>
        /\ fields.total_comparisons = Len(comps)
        /\ fields.number_identical =
              Cardinality({j \in 1..Len(comps) : comps[j].identical})
        /\ fields.statuses_identical =
              Cardinality({j \in 1..Len(comps) :
                  comps[j].primary_response.statuscode
                      = comps[j].shadow_response.statuscode})
        /\ fields.number_skipped = uncompared
        /\ Len(comps) > 0 =>
              /\ fields.percent_matching.num * Len(comps)
                    = fields.number_identical * fields.percent_matching.den
              /\ fields.percent_statuses_matching.num * Len(comps)
                    = fields.statuses_identical * fields.percent_statuses_matching.den
              /\ \A x \in {fields.percent_matching, fields.percent_statuses_matching} :
                    x.den > 0 /\ 0 <= x.num /\ x.num <= x.den
        /\ Len(comps) = 0 =>
              /\ fields.percent_matching = Zero
              /\ fields.percent_statuses_matching = Zero
              /\ op = "compute" => raised = ""

C4_Witness ==
    /\ IsBasic
    /\ op = "compute"
    /\ Len(comps) = 2
    /\ fields.number_identical = 1
    /\ fields.statuses_identical = 1
    /\ comps[1].identical
    /\ comps[1].primary_response.statuscode # comps[1].shadow_response.statuscode

PositiveLatency(x) == x > 0

\* C6: after PerformanceReport.compute each latency list holds, in input
\* order, exactly the latencies of its own side that are greater than zero.
C6_LatencyFilter ==
    (IsPerf /\ computed) =>
        /\ fields.primary_latencies =
              SelectSeq([j \in 1..Len(comps) |-> comps[j].primary_response.latency],
                        PositiveLatency)
        /\ fields.shadow_latencies =
              SelectSeq([j \in 1..Len(comps) |-> comps[j].shadow_response.latency],
                        PositiveLatency)

C6_Witness ==
    /\ IsPerf
    /\ op = "compute"
    /\ Len(comps) = 2
    /\ comps[1].primary_response.latency = 0 /\ comps[1].shadow_response.latency = 20
    /\ comps[2].primary_response.latency = 30 /\ comps[2].shadow_response.latency = -1
    /\ fields.primary_latencies = <<30>>
    /\ fields.shadow_latencies = <<20>>

NoNan(text) == ~text.primary.nan /\ ~text.shadow.nan

\* C7: when a side's filtered latency list is empty, __str__ and export of
\* PerformanceReport let no exception out and put no nan in the text.
C7_EmptySampleReported ==
    (/\ IsPerf
     /\ op \in {"str", "export"}
     /\ fields.primary_latencies = <<>> \/ fields.shadow_latencies = <<>>) =>
        /\ raised = ""
        /\ op = "str" => NoNan(summary[1])
        /\ op = "export" => NoNan(sink[1].text[1])

\* a structured body json.dumps cannot serialize, in a comparison whose
\* bodies are both structured
Unserializable(comp) ==
    /\ comp.primary_response.body.kind \notin {"str", "none"}
    /\ comp.shadow_response.body.kind \notin {"str", "none"}
    /\ "bytes" \in {comp.primary_response.body.kind, comp.shadow_response.body.kind}

\* C8: a comparison whose structured body cannot be serialized does not
\* stop export: every later comparison that is not identical and has two
\* non-empty bodies still has its diff in the output.
C8_SerializationIsolated ==
    (IsBasic /\ op = "export") =>
        \A i, j \in 1..Len(comps) :
            (/\ i < j
             /\ Renderable(comps[i]) /\ Unserializable(comps[i])
             /\ Renderable(comps[j]) /\ ~Unserializable(comps[j])) =>
                \E k \in Positions(sink, "diff") :
                    /\ sink[k] = DiffOf(comps[j])
                    /\ sink[k - 2] = Separator

Reverse(s) == [j \in 1..Len(s) |-> s[Len(s) + 1 - j]]

\* C9: the output of BasicCorrectnessReport.export is the summary followed
\* by exactly one section (separator, diff) per comparison that is not
\* identical and has two non-empty bodies, in input order; the summary does
\* not depend on the order of the comparisons.
C9_SectionsInInputOrder ==
    (IsBasic /\ op = "export") =>
        LET R == SelectSeq(comps, Renderable)
        IN  /\ sink[1] = SummaryItem(BasicText(fields))
            /\ sink[2] = Newline
            /\ Len(sink) = 2 + 4 * Len(R)
            /\ \A k \in 1..Len(R) :
                  SubSeq(sink, 4 * k - 1, 4 * k + 2)
                      = <<Separator, Newline, DiffOf(R[k]), Newline>>
            /\ BasicText(fields)
                  = BasicText(BasicComputeFields(NoFields, Reverse(comps), uncompared))

BodyLineOf(line, body) ==
    LET full == StrForm(body)
    IN  /\ line.tag = "Body:"
        /\ line.type = TypeTag(body)
        /\ Len(line.text) <= 80
        /\ Len(line.text) = Min(80, Len(full))
        /\ \A c \in 1..Len(line.text) : line.text[c] = full[c]

SerializedOf(lines, body) ==
    LET n == Len(body.items)
    IN  /\ lines[3] = BodyHeader
        /\ Len(lines) = 3 + (IF n = 0 THEN 1 ELSE n + 2)
        /\ n > 0 =>
              /\ lines[4].text = <<"{">>
              /\ lines[Len(lines)].text = <<"}">>
              /\ \A e \in 1..n :
                    \E it \in {body.items[x] : x \in 1..n} :
                        /\ lines[4 + e].text[6] = it[1]
                        /\ lines[4 + e].text[10] = Digits[it[2] + 1]
              /\ \A e \in 1..(n - 1) :
                    KeyOrd(lines[4 + e].text[6]) < KeyOrd(lines[5 + e].text[6])

\* C10: for the k-th diff export writes, which is the diff of the k-th
\* comparison that is not identical and has two non-empty bodies: when
\* either body is a str or None, each side is three lines and its body line
\* carries the type tag and the first 80 characters of the body's string
\* form; when both bodies are structured, each side is the two head lines,
\* "Body:", and one line per line of the serialization, whose entries are
\* the dict's items in ascending key order.
C10_BodySection ==
    (IsBasic /\ sink # <<>>) =>
        LET R == SelectSeq(comps, Renderable)
            D == DiffsWritten
        IN  /\ Len(D) <= Len(R)
            /\ \A k \in 1..Len(D) :
                  LET pb == R[k].primary_response.body
                      sb == R[k].shadow_response.body
                  IN  IF pb.kind \in {"str", "none"} \/ sb.kind \in {"str", "none"}
                      THEN /\ Len(D[k].a) = 3 /\ Len(D[k].b) = 3
                           /\ BodyLineOf(D[k].a[3], pb)
                           /\ BodyLineOf(D[k].b[3], sb)
                      ELSE /\ SerializedOf(D[k].a, pb)
                           /\ SerializedOf(D[k].b, sb)

C10_Witness ==
    /\ IsBasic
    /\ op = "export"
    /\ Len(DiffsWritten) = 2
    /\ Len(DiffsWritten[1].a) = 3
    /\ Len(DiffsWritten[1].a[3].text) < Len(DiffsWritten[1].b[3].text)
    /\ Len(DiffsWritten[1].b[3].text) = 80
    /\ Len(LongStr.text) > 80
    /\ Len(DiffsWritten[2].a) > 3

\* C3: when the callers of one shared report have all returned, the cached
\* attributes are those one compute call alone leaves: in particular no
\* latency is in a list more often than the comparisons carry it.
C3_ConcurrentComputeSafe ==
    AllDone =>
        /\ computed
        /\ IsPerf => fields = PerfComputeFields(NoFields, comps)
        /\ IsBasic => fields = BasicComputeFields(NoFields, comps, uncompared)

============================================================================
